---- MODULE Spec2Model ----
(***************************************************************************)
(* Trace CLI: the evidence capture engine (core/capture.py), the evidence  *)
(* store (core/storage.py), the two callers of run_and_capture (cli.py     *)
(* run, mcp_server.py _handle_run_and_capture) and the review path that    *)
(* sends stored evidence to a language model (core/analyzer.py).           *)
(*                                                                         *)
(* A text is a sequence of atoms [id, term, text]: `id` names the write    *)
(* that produced it, `term` is how the piece ends ("LF", "CRLF", "NONE"    *)
(* for an unterminated piece, "BAD" for bytes that are not valid UTF-8)    *)
(* and `text` is the kind of content ("data", "secret", "notfound",        *)
(* "error", ...).                                                          *)
(***************************************************************************)
EXTENDS Integers, Sequences, FiniteSets, TLC

\* ---------------------------------------------------------------- bounds

\* The child process writes at most MaxWrites pieces in one run.
MaxWrites == 2
\* A pipe holds at most PipeCap pieces before the child's write blocks.
PipeCap == 2
\* A text given to redact_text or scan_for_secrets holds at most MaxItems
\* whitespace-separated items.
MaxItems == 2
\* A content given to truncate_evidence holds at most MaxContentLines lines,
\* and its max_lines argument is at most MaxLineBudget.
MaxContentLines == 4
MaxLineBudget == 4
\* A changed file's path holds at most MaxPathDirs directories, and
\* map_evidence_to_files is given at most MaxChangedFiles filenames.
MaxPathDirs == 2
MaxChangedFiles == 1
\* The Evidence Store holds at most MaxStoredLogs records before an import.
MaxStoredLogs == 2
\* At most MaxSessions captures and imports are made in a row.
MaxSessions == 4

\* ------------------------------------------------------------- constants

\* capture.py:141, the exit code synthesized for FileNotFoundError.
NOT_FOUND_EXIT == 127
\* capture.py:146, the exit code synthesized for any other exception.
ERROR_EXIT == 1
\* What /bin/sh exits with when it cannot find the command (POSIX).
SHELL_NOT_FOUND == 127
\* The exit status of a Python process that ends by an uncaught exception.
UNCAUGHT_EXIT == 1
\* analyzer.py:107, the default line budget of truncate_evidence.
DEFAULT_MAX_LINES == 200
\* analyzer.py:174, the default character budget of gather_evidence.
DEFAULT_MAX_CHARS == 50000
\* config.py:31, max_evidence_lines; run_review budgets 100 characters a line.
MAX_EVIDENCE_LINES == 200
CHARS_PER_LINE == 100
\* analyzer.py:187, the number of recent sessions gather_evidence reads.
RECENT_SESSIONS == 5
\* redaction.py:39, sk-(?:proj-)?[a-zA-Z0-9]{16,}
OPENAI_MIN_LEN == 16
\* redaction.py:63, [A-Za-z0-9/+=]{40} between characters outside the class
AWS_SECRET_LEN == 40
\* redaction.py:91, sk_live_[0-9a-zA-Z]{24,}
STRIPE_MIN_LEN == 24
\* redaction.py:102, [Bb]earer\s+[a-zA-Z0-9\-_\.]{20,}
BEARER_MIN_LEN == 20
\* redaction.py:135, ([a-zA-Z0-9\-_\.]{16,})
GENERIC_MIN_LEN == 16
\* redaction.py:144, ([^\s'\"\n]{8,})
ENV_MIN_LEN == 8
\* redaction.py:194, match_str[:4] + "..." + match_str[-4:] if len(match_str) > 12
PREVIEW_EDGE == 4
PREVIEW_MIN_LEN == 12
\* git_context.py:311, 317, 325, 327: the increments 0.5, 0.2 and 0.1 and
\* the cap 1.0 of map_evidence_to_files, counted in tenths.
STEM_SCORE == 5
PART_SCORE == 2
KEYWORD_SCORE == 1
SCORE_CAP == 10

Fds == {"out", "err"}
Channels == {"stdout", "stderr"}

\* The values process.wait() may return for a command of the model: an
\* exit status, or the negated number of the signal that killed the shell.
ExitCodes == {0, 1, -9}

\* The commands a caller may pass: one whose executable exists, one whose
\* executable does not exist, a whitespace-only string, the empty string.
Commands == {"plain", "missing", "blank", "empty"}

\* The working directories: usable, nonexistent, a path that is a file.
Cwds == {"ok", "missing", "notdir"}

\* The pieces a child may write: <<term, text>>.
ChunkKinds ==
    { <<"LF", "data">>, <<"CRLF", "data">>, <<"NONE", "data">>,
      <<"BAD", "data">>, <<"LF", "secret">> }

Atom(i, term, text) == [id |-> i, term |-> term, text |-> text]

VARIABLES
    caller,         \* "cli" (cli.py run) or "mcp" (_handle_run_and_capture)
    command,        \* the command string's kind
    cwd,            \* the cwd argument's kind
    quiet,          \* the quiet argument
    pc,             \* where the engine (and then its caller) stands
    proc,           \* the child process: "none", "running", "exited"
    status,         \* the child's exit status once it has exited
    wopen,          \* the streams whose write end the child holds open
    pipe,           \* pipe[f]: the pieces written and not yet read
    wrote,          \* wrote[f]: every piece the child has written to f
    selector,       \* the streams registered with the selector
    events,         \* the ready keys select returned, not yet handled
    dbuf,           \* dbuf[f]: text the stream object has read, not returned
    stdout_buffer,  \* list of lines read from the child's stdout
    stderr_buffer,  \* list of lines read from the child's stderr
    exit_code,      \* <<>> while unbound, <<c>> once assigned
    failure,        \* the except clause that ran: "none", "FileNotFoundError", "Exception"
    chan,           \* chan[c]: what has been written to the console channel c
    sinkOk,         \* sinkOk[c]: whether writes to console channel c succeed
    store,          \* the evidence records save_evidence has written
    saveCalls,      \* how many times save_evidence was called
    result,         \* <<>> or <<CaptureResult>> returned by run_and_capture
    exc,            \* the exception that left run_and_capture, or "none"
    interrupted,    \* whether an external interrupt has arrived
    mirrorFailed,   \* whether a live-sink write failed inside the read loop
    lateWrites,     \* ids written to a stream after the other was unregistered
    cliExit,        \* <<>> or <<c>>: the exit status of the CLI process
    mcpResponse,    \* "none", "result", "error": what the MCP handler returned
    mcpPayload,     \* <<>> or the fields of the structured result
    llmPrompts      \* the evidence texts placed in prompts sent to the LLM

VARIABLES
    op,             \* the library operation under way, "none" inside a capture
    original_text,  \* redact_text / scan_for_secrets: the text argument
    redacted,       \* redact_text: the text after the patterns were applied
    redactions,     \* redact_text: the list of {pattern, preview} records
    detected,       \* scan_for_secrets: the list of records
    matched,        \* the match_str each record of the last call was cut from
    warning         \* the lines print_redaction_warning wrote to the console

VARIABLES
    adapter,        \* "gemini" or "antigravity": the adapter that ingests
    method,         \* how the document arrives: paste, txt, json, md, session
    document,       \* the ingested document: its heading or title, its
                    \* body, and what follows an escaped quote in the body
    context_session,\* <<>> or <<ContextSession>> the adapter returned
    context_store   \* the context sessions save_context has written

VARIABLES
    arg_content,    \* truncate_evidence: the content argument
    arg_max_lines,  \* truncate_evidence: the max_lines argument
    arg_keywords,   \* truncate_evidence: the preserve_keywords argument
    output          \* <<>> or <<the text truncate_evidence returned>>

VARIABLES
    evidence_content, \* map_evidence_to_files: what the evidence mentions
    changed_files,  \* map_evidence_to_files: the list of changed filenames
    relevance       \* <<>> or the dictionary map_evidence_to_files returned

VARIABLES
    import_caller,  \* "cli" (trace capture --log), "lib" (capture_log_file), "none"
    log_given,      \* what the path named when the action was invoked
    log_file,       \* what the path names now
    evidence_logs,  \* the imported-log records of the Evidence Store
    import_console, \* what the import has printed
    import_result,  \* <<>> or the CaptureResult capture_log_file returned
    import_exc,     \* "none" or the exception capture_log_file raised
    import_exit     \* <<>> or <<c>>: the exit status of the CLI process

VARIABLES
    tool,           \* the tool call_tool dispatches to, "none" outside the server
    arguments,      \* the arguments of the call
    environment,    \* the repository, configuration and store the server runs in
    primary,        \* what handlers have written to stdout, the protocol's channel
    diagnostics,    \* what handlers have written to stderr
    reply           \* "none", "result" or "error": the response returned

VARIABLES
    evidence_dir,   \* .ai/evidence: the record stored under each file name
    written         \* what each completed session wrote, in order

VARIABLE
    program         \* the writes the child's program makes, in order, before it exits

redactVars == <<original_text, redacted, redactions, detected, matched, warning>>
ingestVars == <<adapter, method, document, context_session, context_store>>
triageVars == <<arg_content, arg_max_lines, arg_keywords, output>>
relevanceVars == <<evidence_content, changed_files, relevance>>
importVars == <<import_caller, log_given, log_file, evidence_logs,
                import_console, import_result, import_exc, import_exit>>
mcpVars == <<tool, arguments, environment, primary, diagnostics, reply>>
storeVars == <<evidence_dir, written>>
libVars == <<op, redactVars, ingestVars, triageVars, relevanceVars, importVars,
             mcpVars, storeVars, program>>
inputVars == <<caller, command, cwd, quiet>>
childVars == <<proc, status, wopen, pipe, wrote, lateWrites>>
engineVars == <<selector, events, dbuf, stdout_buffer, stderr_buffer,
                exit_code, failure, mirrorFailed>>
outVars == <<store, saveCalls, result, exc>>
callerVars == <<cliExit, mcpResponse, mcpPayload, llmPrompts>>
captureVars == <<inputVars, pc, childVars, engineVars, chan, sinkOk, outVars,
                 interrupted, callerVars>>
vars == <<caller, command, cwd, quiet, pc, proc, status, wopen, pipe, wrote,
          selector, events, dbuf, stdout_buffer, stderr_buffer, exit_code,
          failure, chan, sinkOk, store, saveCalls, result, exc, interrupted,
          mirrorFailed, lateWrites, cliExit, mcpResponse, mcpPayload, llmPrompts,
          libVars>>

\* ------------------------------------------------------------ text helpers

RECURSIVE Concat(_)
\* "".join(list): the concatenation of a sequence of texts.
Concat(ss) == IF ss = <<>> THEN <<>> ELSE Head(ss) \o Concat(Tail(ss))

\* Universal-newline translation of one piece, as the text-mode stream
\* object does on reading: "\r\n" becomes "\n".
TranslateAtom(a) ==
    IF a.term = "CRLF" THEN [a EXCEPT !.term = "LF"] ELSE a

Translate(s) == [i \in 1..Len(s) |-> TranslateAtom(s[i])]

\* Whether a text holds bytes the decoder rejects (UnicodeDecodeError).
Undecodable(s) == \E i \in 1..Len(s) : s[i].term = "BAD"

\* The position of the first line terminator in a text, 0 when none.
FirstNewline(s) ==
    IF \E i \in 1..Len(s) : s[i].term \in {"LF", "CRLF"}
    THEN CHOOSE i \in 1..Len(s) :
            /\ s[i].term \in {"LF", "CRLF"}
            /\ \A j \in 1..(i - 1) : s[j].term \notin {"LF", "CRLF"}
    ELSE 0

\* Whether a text contains a "not found" diagnostic.
HasNotFound(s) == \E i \in 1..Len(s) : s[i].text = "notfound"

\* The orderings of a set of at most two keys.
Orderings(S) == { q \in UNION { [1..n -> S] : n \in 0..2 } :
                    /\ Len(q) = Cardinality(S)
                    /\ \A f \in S : \E i \in 1..Len(q) : q[i] = f }

\* ------------------------------------------------------------------ Init

NoFds == [f \in Fds |-> <<>>]

\* No import is under way.
ImportIdle ==
    /\ import_caller = "none"
    /\ log_given = <<"missing">>
    /\ log_file = <<"missing">>
    /\ evidence_logs = <<>>
    /\ import_console = <<>>
    /\ import_result = <<>>
    /\ import_exc = "none"
    /\ import_exit = <<>>

\* redact_text, the adapters, truncate_evidence and map_evidence_to_files
\* have not been called.
RedactIdle ==
    /\ original_text = <<>>
    /\ redacted = <<>>
    /\ redactions = <<>>
    /\ detected = <<>>
    /\ matched = <<>>
    /\ warning = <<>>

IngestIdle ==
    /\ adapter = "none"
    /\ method = "none"
    /\ document = <<>>
    /\ context_session = <<>>
    /\ context_store = <<>>

TriageIdle ==
    /\ arg_content = <<>>
    /\ arg_max_lines = 0
    /\ arg_keywords = {}
    /\ output = <<>>

RelevanceIdle ==
    /\ evidence_content = <<>>
    /\ changed_files = <<>>
    /\ relevance = <<>>

\* The MCP server is not serving.
McpIdle ==
    /\ tool = "none"
    /\ arguments = <<>>
    /\ environment = <<>>
    /\ primary = <<>>
    /\ diagnostics = <<>>
    /\ reply = "none"

\* Nothing is being stored.
StoreIdle ==
    /\ evidence_dir = <<>>
    /\ written = <<>>

\* The child's program is not prescribed: it may write and exit as it likes.
ProgramIdle == program = <<>>

\* No library operation is under way.
LibIdle ==
    /\ ProgramIdle
    /\ ImportIdle
    /\ StoreIdle
    /\ McpIdle
    /\ op = "none"
    /\ original_text = <<>>
    /\ redacted = <<>>
    /\ redactions = <<>>
    /\ detected = <<>>
    /\ matched = <<>>
    /\ warning = <<>>
    /\ adapter = "none"
    /\ method = "none"
    /\ document = <<>>
    /\ context_session = <<>>
    /\ context_store = <<>>
    /\ arg_content = <<>>
    /\ arg_max_lines = 0
    /\ arg_keywords = {}
    /\ output = <<>>
    /\ evidence_content = <<>>
    /\ changed_files = <<>>
    /\ relevance = <<>>

\* No capture is under way: the library functions are called on their own.
CaptureIdle ==
    /\ caller = "none"
    /\ command = "empty"
    /\ cwd = "ok"
    /\ quiet = FALSE
    /\ pc = "idle"
    /\ proc = "none"
    /\ status = 0
    /\ wopen = {}
    /\ pipe = NoFds
    /\ wrote = NoFds
    /\ selector = {}
    /\ events = <<>>
    /\ dbuf = NoFds
    /\ stdout_buffer = <<>>
    /\ stderr_buffer = <<>>
    /\ exit_code = <<>>
    /\ failure = "none"
    /\ chan = [c \in Channels |-> <<>>]
    /\ sinkOk = [c \in Channels |-> TRUE]
    /\ store = <<>>
    /\ saveCalls = 0
    /\ result = <<>>
    /\ exc = "none"
    /\ interrupted = FALSE
    /\ mirrorFailed = FALSE
    /\ lateWrites = {}
    /\ cliExit = <<>>
    /\ mcpResponse = "none"
    /\ mcpPayload = <<>>
    /\ llmPrompts = <<>>

\* A caller is about to call run_and_capture.
CaptureStart ==
    /\ caller \in {"cli", "mcp"}
    /\ command \in Commands
    \* cli.py:104 passes neither cwd nor quiet; mcp_server.py:219-223 passes
    \* the request's cwd and quiet=True.
    /\ cwd \in IF caller = "cli" THEN {"ok"} ELSE Cwds
    /\ quiet = (caller = "mcp")
    /\ pc = "call"
    /\ proc = "none"
    /\ status = 0
    /\ wopen = {}
    /\ pipe = NoFds
    /\ wrote = NoFds
    /\ selector = {}
    /\ events = <<>>
    /\ dbuf = NoFds
    /\ stdout_buffer = <<>>
    /\ stderr_buffer = <<>>
    /\ exit_code = <<>>
    /\ failure = "none"
    /\ chan = [c \in Channels |-> <<>>]
    /\ sinkOk = [c \in Channels |-> TRUE]
    /\ store = <<>>
    /\ saveCalls = 0
    /\ result = <<>>
    /\ exc = "none"
    /\ interrupted = FALSE
    /\ mirrorFailed = FALSE
    /\ lateWrites = {}
    /\ cliExit = <<>>
    /\ mcpResponse = "none"
    /\ mcpPayload = <<>>
    /\ llmPrompts = <<>>

Init ==
    /\ LibIdle
    /\ CaptureStart

\* ------------------------------------------------------- the child process

Other(f) == IF f = "out" THEN "err" ELSE "out"

NumWrites == Len(wrote["out"]) + Len(wrote["err"])

\* The child writes one piece to stream f; the write blocks while the pipe
\* is full.
ChildWrite(f, kind) ==
    /\ proc = "running"
    /\ command = "plain"
    /\ f \in wopen
    /\ Len(pipe[f]) < PipeCap
    /\ NumWrites < MaxWrites
    /\ LET a == Atom(NumWrites + 1, kind[1], kind[2]) IN
        /\ pipe' = [pipe EXCEPT ![f] = Append(@, a)]
        /\ wrote' = [wrote EXCEPT ![f] = Append(@, a)]
        /\ lateWrites' =
            IF pc \in {"loop", "readline"} /\ f \in selector /\ Other(f) \notin selector
            THEN lateWrites \cup {a.id}
            ELSE lateWrites
    /\ UNCHANGED <<libVars, inputVars, pc, proc, status, wopen, engineVars, chan,
                   sinkOk, outVars, interrupted, callerVars>>

\* /bin/sh cannot find the executable: it says so on its stderr.
ShellNotFound ==
    /\ proc = "running"
    /\ command = "missing"
    /\ wrote["err"] = <<>>
    /\ LET a == Atom(1, "LF", "notfound") IN
        /\ pipe' = [pipe EXCEPT !["err"] = Append(@, a)]
        /\ wrote' = [wrote EXCEPT !["err"] = Append(@, a)]
    /\ UNCHANGED <<libVars, inputVars, pc, proc, status, wopen, lateWrites, engineVars,
                   chan, sinkOk, outVars, interrupted, callerVars>>

\* The child closes one of its output streams and keeps running.
ChildClose(f) ==
    /\ proc = "running"
    /\ command = "plain"
    /\ f \in wopen
    /\ wopen' = wopen \ {f}
    /\ UNCHANGED <<libVars, inputVars, pc, proc, status, pipe, wrote, lateWrites,
                   engineVars, chan, sinkOk, outVars, interrupted, callerVars>>

\* The exit statuses the child may end with, by command.
ChildStatuses ==
    CASE command = "plain" -> ExitCodes
      [] command = "missing" ->
            IF wrote["err"] = <<>> THEN {} ELSE {SHELL_NOT_FOUND}
      [] OTHER -> {0}

\* The child exits: every stream it still holds is closed.
ChildExit(c) ==
    /\ proc = "running"
    /\ c \in ChildStatuses
    /\ proc' = "exited"
    /\ status' = c
    /\ wopen' = {}
    /\ UNCHANGED <<libVars, inputVars, pc, pipe, wrote, lateWrites, engineVars, chan,
                   sinkOk, outVars, interrupted, callerVars>>

\* The programs a child may be: each makes up to PipeCap + 2 writes of a
\* full or an unterminated line, each to one stream, closes both streams
\* and exits. One of them writes an unterminated line to one stream and
\* then PipeCap + 1 lines to the other.
Programs ==
    UNION { [1..n -> Fds \X {"LF", "NONE"}] : n \in 0..(PipeCap + 2) }

\* The child makes the next write of its program; the write blocks while
\* the pipe is full.
ProgramWrite ==
    /\ proc = "running"
    /\ command = "plain"
    /\ NumWrites < Len(program)
    /\ LET f == program[NumWrites + 1][1]
           a == Atom(NumWrites + 1, program[NumWrites + 1][2], "data")
       IN
        /\ Len(pipe[f]) < PipeCap
        /\ pipe' = [pipe EXCEPT ![f] = Append(@, a)]
        /\ wrote' = [wrote EXCEPT ![f] = Append(@, a)]
        /\ lateWrites' =
            IF pc \in {"loop", "readline"} /\ f \in selector /\ Other(f) \notin selector
            THEN lateWrites \cup {a.id}
            ELSE lateWrites
    /\ UNCHANGED <<libVars, inputVars, pc, proc, status, wopen, engineVars, chan,
                   sinkOk, outVars, interrupted, callerVars>>

\* The child exits once its program has made all its writes.
ProgramExit ==
    /\ command = "plain" => NumWrites = Len(program)
    /\ \E c \in {0, SHELL_NOT_FOUND} : ChildExit(c)

\* ------------------------------------------------------ run_and_capture

\* LiveSink without the quiet substitution.
LiveSinkLoud(f) == IF f = "out" THEN "stdout" ELSE "stderr"

\* The console channel a line read from stream f is mirrored to.
LiveSink(f) ==
    IF f = "out" THEN (IF quiet THEN "stderr" ELSE "stdout") ELSE "stderr"

\* One write to console channel c.
Emit(c, what) == [chan EXCEPT ![c] = Append(@, what)]

\* An exception leaves run_and_capture.
Raise(e) ==
    /\ pc' = "raised"
    /\ exc' = e

\* The caller enters run_and_capture; generate_session_id has run.
Call ==
    /\ pc = "call"
    /\ ~(caller = "mcp" /\ command = "empty")
    /\ pc' = "header"
    /\ UNCHANGED <<libVars, inputVars, childVars, engineVars, chan, sinkOk, outVars,
                   interrupted, callerVars>>

\* The recording panel, printed unless quiet.
Header ==
    /\ pc = "header"
    /\ IF quiet
       THEN /\ pc' = "spawn"
            /\ UNCHANGED <<chan, exc>>
       ELSE IF sinkOk["stdout"]
       THEN /\ chan' = Emit("stdout", "header")
            /\ pc' = "spawn"
            /\ exc' = exc
       ELSE /\ Raise("ConsoleError")
            /\ chan' = chan
    /\ UNCHANGED <<libVars, inputVars, childVars, engineVars, sinkOk, store, saveCalls,
                   result, interrupted, callerVars>>

\* FileNotFoundError falling through to the generic clause.
ExceptNotFoundGeneric ==
    /\ exit_code' = <<ERROR_EXIT>>
    /\ failure' = "Exception"
    /\ chan' = Emit("stderr", "diag")
    /\ stderr_buffer' = Append(stderr_buffer, <<Atom(0, "LF", "error")>>)
    /\ pc' = "footer"
    /\ exc' = exc

\* except FileNotFoundError: the pieces of state the clause sets.
ExceptNotFound ==
    /\ exit_code' = <<NOT_FOUND_EXIT>>
    /\ failure' = "FileNotFoundError"
    /\ IF command = "blank"
       THEN \* command.split()[0] on a whitespace-only command
            /\ Raise("IndexError")
            /\ UNCHANGED <<chan, stderr_buffer>>
       ELSE IF sinkOk["stderr"]
       THEN /\ chan' = Emit("stderr", "diag")
            /\ stderr_buffer' = Append(stderr_buffer, <<Atom(0, "LF", "notfound")>>)
            /\ pc' = "footer"
            /\ exc' = exc
       ELSE /\ Raise("ConsoleError")
            /\ UNCHANGED <<chan, stderr_buffer>>

\* except Exception: the pieces of state the clause sets.
ExceptOther ==
    /\ exit_code' = <<ERROR_EXIT>>
    /\ failure' = "Exception"
    /\ IF sinkOk["stderr"]
       THEN /\ chan' = Emit("stderr", "diag")
            /\ stderr_buffer' = Append(stderr_buffer, <<Atom(0, "LF", "error")>>)
            /\ pc' = "footer"
            /\ exc' = exc
       ELSE /\ Raise("ConsoleError")
            /\ UNCHANGED <<chan, stderr_buffer>>

\* subprocess.Popen(command, shell=True, cwd=cwd) and the registration of
\* both streams.
Spawn ==
    /\ pc = "spawn"
    /\ cwd = "ok"
    /\ proc' = "running"
    /\ wopen' = Fds
    /\ selector' = Fds
    /\ pc' = "loop"
    /\ UNCHANGED <<libVars, inputVars, status, pipe, wrote, lateWrites, events, dbuf,
                   stdout_buffer, stderr_buffer, exit_code, failure,
                   mirrorFailed, chan, sinkOk, outVars, interrupted, callerVars>>

\* Popen raises FileNotFoundError: the working directory does not exist.
SpawnNotFound ==
    /\ pc = "spawn"
    /\ cwd = "missing"
    /\ ExceptNotFound
    /\ UNCHANGED <<libVars, inputVars, childVars, selector, events, dbuf, stdout_buffer,
                   mirrorFailed, sinkOk, store, saveCalls, result, interrupted,
                   callerVars>>

\* Popen raises another OSError: the working directory is not a directory.
SpawnError ==
    /\ pc = "spawn"
    /\ cwd = "notdir"
    /\ ExceptOther
    /\ UNCHANGED <<libVars, inputVars, childVars, selector, events, dbuf, stdout_buffer,
                   mirrorFailed, sinkOk, store, saveCalls, result, interrupted,
                   callerVars>>

\* The registered streams select reports readable: data in the pipe, or
\* the write end closed.
Ready == { f \in selector : pipe[f] # <<>> \/ f \notin wopen }

\* while selector.get_map(): events = selector.select(timeout=0.1)
Select ==
    /\ pc = "loop"
    /\ selector # {}
    /\ Ready # {}
    /\ events' \in Orderings(Ready)
    /\ pc' = "readline"
    /\ UNCHANGED <<libVars, inputVars, childVars, selector, dbuf, stdout_buffer,
                   stderr_buffer, exit_code, failure, mirrorFailed, chan,
                   sinkOk, outVars, interrupted, callerVars>>

\* The selector's map is empty: the while loop ends.
LoopExit ==
    /\ pc = "loop"
    /\ selector = {}
    /\ pc' = "wait"
    /\ UNCHANGED <<libVars, inputVars, childVars, engineVars, chan, sinkOk, outVars,
                   interrupted, callerVars>>

\* The for loop moves to the next ready key, or back to the while test.
NextPc == IF Tail(events) = <<>> THEN "loop" ELSE "readline"

\* The line put in front of the buffer instead of at its end.
AppendLineFront(buf, line) == <<line>> \o buf

\* stdout_buffer.append(line) / stderr_buffer.append(line)
AppendLine(buf, line) == Append(buf, line)

\* Every stream unregistered at the first end-of-stream.
UnregisterAll(f) == {}

\* selector.unregister(key.fileobj)
Unregister(f) == selector \ {f}

\* What readline returns at end-of-stream: the text still held, if any.
EofLine(f) == dbuf[f]

\* if line: mirror it to the live sink and append it to its buffer.
Deliver(f, line) ==
    IF sinkOk[LiveSink(f)]
    THEN /\ chan' = Emit(LiveSink(f), "line")
         /\ stdout_buffer' = IF f = "out" THEN AppendLine(stdout_buffer, line)
                             ELSE stdout_buffer
         /\ stderr_buffer' = IF f = "err" THEN AppendLine(stderr_buffer, line)
                             ELSE stderr_buffer
         /\ events' = Tail(events)
         /\ pc' = NextPc
         /\ UNCHANGED <<exit_code, failure, exc, mirrorFailed>>
    ELSE \* sys.stdout.write / sys.stderr.write raises inside the try
         /\ mirrorFailed' = TRUE
         /\ ExceptOther
         /\ UNCHANGED <<stdout_buffer, events>>

\* readline: no full line is held, so the stream object reads what the pipe
\* holds and decodes it.
ReadFill ==
    /\ pc = "readline"
    /\ LET f == Head(events) IN
        /\ FirstNewline(dbuf[f]) = 0
        /\ pipe[f] # <<>>
        /\ pipe' = [pipe EXCEPT ![f] = <<>>]
        /\ IF Undecodable(pipe[f])
           THEN \* UnicodeDecodeError
                /\ ExceptOther
                /\ UNCHANGED <<dbuf>>
           ELSE /\ dbuf' = [dbuf EXCEPT ![f] = @ \o Translate(pipe[f])]
                /\ UNCHANGED <<pc, exit_code, failure, exc, chan, stderr_buffer>>
    /\ UNCHANGED <<libVars, inputVars, proc, status, wopen, wrote, lateWrites, selector,
                   events, stdout_buffer, mirrorFailed, sinkOk, store,
                   saveCalls, result, interrupted, callerVars>>

\* readline returns the next full line.
ReadLine ==
    /\ pc = "readline"
    /\ LET f == Head(events)
           k == FirstNewline(dbuf[f])
       IN
        /\ k > 0
        /\ dbuf' = [dbuf EXCEPT ![f] = SubSeq(@, k + 1, Len(@))]
        /\ Deliver(f, SubSeq(dbuf[f], 1, k))
    /\ UNCHANGED <<libVars, inputVars, childVars, selector, sinkOk, store, saveCalls,
                   result, interrupted, callerVars>>

\* readline at end-of-stream: the unterminated rest, or '' and the stream
\* is unregistered.
ReadEof ==
    /\ pc = "readline"
    /\ LET f == Head(events) IN
        /\ FirstNewline(dbuf[f]) = 0
        /\ pipe[f] = <<>>
        /\ f \notin wopen
        /\ IF EofLine(f) # <<>>
           THEN /\ dbuf' = [dbuf EXCEPT ![f] = <<>>]
                /\ Deliver(f, EofLine(f))
                /\ UNCHANGED selector
           ELSE /\ selector' = Unregister(f)
                /\ events' = Tail(events)
                /\ pc' = NextPc
                /\ UNCHANGED <<dbuf, stdout_buffer, stderr_buffer, exit_code,
                               failure, exc, mirrorFailed, chan>>
    /\ UNCHANGED <<libVars, inputVars, childVars, sinkOk, store, saveCalls, result,
                   interrupted, callerVars>>

\* The wait returning at once, whether or not the child has ended.
WaitNoBlock ==
    /\ pc = "wait"
    /\ exit_code' = <<0>>
    /\ pc' = "footer"
    /\ UNCHANGED <<libVars, inputVars, childVars, selector, events, dbuf, stdout_buffer,
                   stderr_buffer, failure, mirrorFailed, chan, sinkOk, outVars,
                   interrupted, callerVars>>

\* exit_code = process.wait()
Wait ==
    /\ pc = "wait"
    /\ proc = "exited"
    /\ exit_code' = <<status>>
    /\ pc' = "footer"
    /\ UNCHANGED <<libVars, inputVars, childVars, selector, events, dbuf, stdout_buffer,
                   stderr_buffer, failure, mirrorFailed, chan, sinkOk, outVars,
                   interrupted, callerVars>>

\* The result panel, printed unless quiet.
Footer ==
    /\ pc = "footer"
    /\ IF quiet
       THEN /\ pc' = "save"
            /\ UNCHANGED <<chan, exc>>
       ELSE IF sinkOk["stdout"]
       THEN /\ chan' = Emit("stdout", "footer")
            /\ pc' = "save"
            /\ exc' = exc
       ELSE /\ Raise("ConsoleError")
            /\ chan' = chan
    /\ UNCHANGED <<libVars, inputVars, childVars, engineVars, sinkOk, store, saveCalls,
                   result, interrupted, callerVars>>

\* The session as save_evidence writes it and CaptureResult carries it.
Session ==
    [ command |-> command,
      exit_code |-> exit_code[1],
      stdout |-> Concat(stdout_buffer),
      stderr |-> Concat(stderr_buffer) ]

\* save_evidence writes the record; the path is printed unless quiet; the
\* CaptureResult is returned.
Save ==
    /\ pc = "save"
    /\ saveCalls' = saveCalls + 1
    /\ store' = Append(store, Session)
    /\ IF quiet
       THEN /\ result' = <<Session>>
            /\ pc' = "done"
            /\ UNCHANGED <<chan, exc>>
       ELSE IF sinkOk["stdout"]
       THEN /\ chan' = Emit("stdout", "saved")
            /\ result' = <<Session>>
            /\ pc' = "done"
            /\ exc' = exc
       ELSE /\ Raise("ConsoleError")
            /\ UNCHANGED <<chan, result>>
    /\ UNCHANGED <<libVars, inputVars, childVars, engineVars, sinkOk, interrupted,
                   callerVars>>

\* save_evidence fails to write the record (OSError): nothing catches it.
SaveFail ==
    /\ pc = "save"
    /\ saveCalls' = saveCalls + 1
    /\ Raise("PersistenceError")
    /\ UNCHANGED <<libVars, inputVars, childVars, engineVars, chan, sinkOk, store,
                   result, interrupted, callerVars>>

\* An external interrupt (KeyboardInterrupt) arrives while run_and_capture
\* runs: no except clause catches it and nothing signals the child.
Interrupt ==
    /\ pc \in {"header", "spawn", "loop", "readline", "wait", "footer", "save"}
    /\ interrupted' = TRUE
    /\ Raise("KeyboardInterrupt")
    /\ UNCHANGED <<libVars, inputVars, childVars, engineVars, chan, sinkOk, store,
                   saveCalls, result, callerVars>>

\* A console channel stops accepting writes (its reader is gone).
BreakSink(c) ==
    /\ pc \in {"call", "header", "spawn", "loop", "readline", "wait", "footer", "save"}
    /\ sinkOk[c]
    /\ sinkOk' = [sinkOk EXCEPT ![c] = FALSE]
    /\ UNCHANGED <<libVars, inputVars, pc, childVars, engineVars, chan, outVars,
                   interrupted, callerVars>>

\* ------------------------------------------------------------ the callers

\* cli.py run: raise typer.Exit(result.exit_code). The process ends with the
\* low eight bits of the code it is given.
CliExit ==
    /\ caller = "cli"
    /\ pc = "done"
    /\ cliExit' = <<result[1].exit_code % 256>>
    /\ pc' = "end"
    /\ UNCHANGED <<libVars, inputVars, childVars, engineVars, chan, sinkOk, outVars,
                   interrupted, mcpResponse, mcpPayload, llmPrompts>>

\* cli.py run has no except clause: the exception ends the process.
CliCrash ==
    /\ caller = "cli"
    /\ pc = "raised"
    /\ cliExit' = <<UNCAUGHT_EXIT>>
    /\ pc' = "end"
    /\ UNCHANGED <<libVars, inputVars, childVars, engineVars, chan, sinkOk, outVars,
                   interrupted, mcpResponse, mcpPayload, llmPrompts>>

\* _handle_run_and_capture: if not command, an error response.
McpReject ==
    /\ caller = "mcp"
    /\ pc = "call"
    /\ command = "empty"
    /\ mcpResponse' = "error"
    /\ pc' = "end"
    /\ UNCHANGED <<libVars, inputVars, childVars, engineVars, chan, sinkOk, outVars,
                   interrupted, cliExit, mcpPayload, llmPrompts>>

\* The structured result with every exit code reported as 0.
McpPayloadZero(r) ==
    [exit_code |-> 0, stdout_tail |-> r.stdout, stderr_tail |-> r.stderr]

\* The response built from the CaptureResult (mcp_server.py:226-233). The
\* tails are the last 2000 and 500 characters, which is all of an output
\* of the model.
McpPayload(r) ==
    [exit_code |-> r.exit_code, stdout_tail |-> r.stdout,
     stderr_tail |-> r.stderr]

\* _handle_run_and_capture: the structured result.
McpRespond ==
    /\ caller = "mcp"
    /\ pc = "done"
    /\ mcpResponse' = "result"
    /\ mcpPayload' = << McpPayload(result[1]) >>
    /\ pc' = "end"
    /\ UNCHANGED <<libVars, inputVars, childVars, engineVars, chan, sinkOk, outVars,
                   interrupted, cliExit, llmPrompts>>

\* _handle_run_and_capture: except Exception, an error response.
McpError ==
    /\ caller = "mcp"
    /\ pc = "raised"
    /\ exc # "KeyboardInterrupt"
    /\ mcpResponse' = "error"
    /\ pc' = "end"
    /\ UNCHANGED <<libVars, inputVars, childVars, engineVars, chan, sinkOk, outVars,
                   interrupted, cliExit, mcpPayload, llmPrompts>>

\* ------------------------------------------------ evidence triage, redaction

\* The text kinds the default preserve_keywords match (analyzer.py:126-129):
\* the engine's own "Error executing command" diagnostic is one.
DefaultKeywords == {"error"}

Min(a, b) == IF a < b THEN a ELSE b
Max(a, b) == IF a > b THEN a ELSE b

\* A line without its terminator.
Strip(s) == [i \in 1..Len(s) |-> [s[i] EXCEPT !.term = "NONE"]]

RECURSIVE SplitLines(_)
\* content.split("\n"): a text ending in a newline yields a last empty line.
SplitLines(s) ==
    LET k == FirstNewline(s) IN
    IF k = 0 THEN << Strip(s) >>
    ELSE << Strip(SubSeq(s, 1, k)) >> \o SplitLines(SubSeq(s, k + 1, Len(s)))

\* One text followed by "\n".
Terminated(line) ==
    IF line = <<>> \/ line[Len(line)].term # "NONE"
    THEN line \o << Atom(0, "LF", "empty") >>
    ELSE [i \in 1..Len(line) |->
            IF i = Len(line) THEN [line[i] EXCEPT !.term = "LF"] ELSE line[i]]

RECURSIVE JoinLines(_)
\* "\n".join(lines)
JoinLines(ls) ==
    IF ls = <<>> THEN <<>>
    ELSE IF Len(ls) = 1 THEN ls[1]
    ELSE Terminated(Head(ls)) \o JoinLines(Tail(ls))

\* str.lower() of a word: "ERROR" is the one word of the model that holds
\* upper-case letters.
Lower(t) == IF t = "ERROR" THEN "error" ELSE t

\* any(kw in line_lower for kw in preserve_keywords): the line is
\* lower-cased, the keywords are taken as given.
HasKeyword(line, keywords) ==
    \E i \in 1..Len(line) : Lower(line[i].text) \in keywords

RECURSIVE IndicesFrom(_, _, _)
\* The indices j >= from of the lines that hold a keyword, in order.
IndicesFrom(lines, keywords, from) ==
    IF from > Len(lines) THEN <<>>
    ELSE (IF HasKeyword(lines[from], keywords) THEN <<from>> ELSE <<>>)
         \o IndicesFrom(lines, keywords, from + 1)

\* The lines from index j on, seen or not.
KeepEvery(lines, j, seen) == SubSeq(lines, j, Len(lines))

RECURSIVE KeepUnseen(_, _, _)
\* The lines from index j on whose index is not in seen, in order.
KeepUnseen(lines, j, seen) ==
    IF j > Len(lines) THEN <<>>
    ELSE (IF j \in seen THEN <<>> ELSE << lines[j] >>)
         \o KeepUnseen(lines, j + 1, seen)

\* truncate_evidence(content, max_lines, preserve_keywords)
truncate_evidence(content, max_lines, keywords) ==
    LET lines == SplitLines(content)
        n == Len(lines)
        important == IndicesFrom(lines, keywords, 1)
        tail_start == Max(0, n - (max_lines \div 2)) + 1
        taken == SubSeq(important, 1, Min(Len(important), max_lines \div 3))
        seen == { taken[k] : k \in 1..Len(taken) }
        annotated == [k \in 1..Len(taken) |->
                        << Atom(taken[k], "NONE", "line_number") >> \o lines[taken[k]]]
        omitted == n - (Len(annotated) + 1) - (n - tail_start + 1)
        markers == IF important = <<>> THEN <<>>
                   ELSE << << Atom(0, "NONE", "dots") >>,
                           << Atom(omitted, "NONE", "omitted") >>,
                           << Atom(0, "NONE", "dots") >> >>
        result_lines == annotated \o markers \o KeepUnseen(lines, tail_start, seen)
    IN  IF n <= max_lines THEN content
        ELSE << Atom(n, "NONE", "truncated_original"),
                Atom(Len(result_lines), "LF", "truncated_result"),
                Atom(0, "LF", "empty") >> \o JoinLines(result_lines)

\* redact_text(text).redacted_text: every secret is replaced by its token.
redact_text(text) ==
    [i \in 1..Len(text) |->
        IF text[i].text = "secret" THEN [text[i] EXCEPT !.text = "redacted"]
        ELSE text[i]]

\* The block gather_evidence formats for one stored session.
EvidenceBlock(data) ==
    << Atom(0, "LF", "empty"), Atom(0, "LF", "evidence_header"),
       Atom(data.exit_code, "LF", "exit_code") >>
    \o truncate_evidence(data.stdout \o data.stderr, DEFAULT_MAX_LINES, DefaultKeywords)
    \o << Atom(0, "LF", "empty") >>

\* list_evidence_sessions()[:5]: the newest sessions first.
RecentSessions(records) ==
    [i \in 1..Min(Len(records), RECENT_SESSIONS) |-> records[Len(records) + 1 - i]]

RECURSIVE GatherParts(_, _, _)
\* The loop of gather_evidence: blocks are added until the budget is hit.
GatherParts(records, total_chars, max_chars) ==
    IF records = <<>> THEN <<>>
    ELSE LET block == EvidenceBlock(Head(records)) IN
         IF total_chars + Len(block) > max_chars THEN <<>>
         ELSE << block >> \o GatherParts(Tail(records), total_chars + Len(block), max_chars)

\* gather_evidence(None, max_chars)
gather_evidence(records, max_chars) ==
    LET evidence_parts == GatherParts(RecentSessions(records), 0, max_chars) IN
    IF evidence_parts = <<>> THEN << Atom(0, "NONE", "no_evidence") >>
    ELSE JoinLines(evidence_parts)

\* A review builds its prompt from the gathered evidence and calls the LLM.
Review(by, max_chars) ==
    /\ pc = "end"
    /\ llmPrompts = <<>>
    /\ llmPrompts' = << [by |-> by, max_chars |-> max_chars,
                         evidence |-> gather_evidence(store, max_chars)] >>
    /\ UNCHANGED <<libVars, inputVars, pc, childVars, engineVars, chan, sinkOk, outVars,
                   interrupted, cliExit, mcpResponse, mcpPayload>>

\* analyzer.py run_review
RunReview == Review("run_review", MAX_EVIDENCE_LINES * CHARS_PER_LINE)

\* mcp_server.py _handle_analyze_code
McpAnalyzeCode == Review("analyze_code", DEFAULT_MAX_CHARS)

\* mcp_server.py _handle_full_review_v2
McpFullReview == Review("full_review", DEFAULT_MAX_CHARS)

\* --------------------------------------------------------------- redaction

\* redaction.py:35-154, the names of REDACTION_PATTERNS in list order.
REDACTION_PATTERNS ==
    << "OPENAI_API_KEY", "ANTHROPIC_API_KEY", "GOOGLE_API_KEY",
       "AWS_ACCESS_KEY", "AWS_SECRET_KEY", "GITHUB_TOKEN", "GITHUB_OAUTH",
       "GITHUB_APP", "SLACK_TOKEN", "STRIPE_KEY", "STRIPE_TEST_KEY",
       "BEARER_TOKEN", "PRIVATE_KEY", "SSH_PRIVATE_KEY", "URL_PASSWORD",
       "GENERIC_API_KEY", "ENV_SECRET", "JWT" >>

\* A text is a sequence of items separated by white space. An item is what
\* stands before a body (lead), the body's alphabet (shape) and the body's
\* number of characters (len):
\*   shape "alnum": characters of [a-zA-Z0-9] only;
\*   shape "jwt":   eyJ<seg>.eyJ<seg>.<seg>, segments of [a-zA-Z0-9_-], none
\*                  of them AWS_SECRET_LEN long;
\*   shape "word":  a short word no pattern matches.
\* tag is "" while the item is as it was written, and the name of the
\* pattern whose token replaced it otherwise; whole tells whether the token
\* replaced lead and body or the body alone. The lead "://u:" is the start
\* of a URL with credentials; its body is the password and "@" and the host
\* follow the body.
Leads == {"", "sk-", "sk_live_", "Bearer ", "TOKEN=", "api_key=", "://u:"}

BodyLens == {ENV_MIN_LEN, PREVIEW_MIN_LEN + 1, STRIPE_MIN_LEN, AWS_SECRET_LEN}

Item(lead, shape, len) ==
    [lead |-> lead, shape |-> shape, len |-> len, tag |-> "", whole |-> FALSE]

Items ==
    { Item(l, "alnum", n) : l \in Leads, n \in BodyLens }
    \cup { Item(l, "jwt", n) : l \in {"", "Bearer ", "TOKEN=", "api_key="},
                               n \in BodyLens \ {ENV_MIN_LEN} }
    \cup { Item("", "word", PREVIEW_EDGE) }

Texts == UNION { [1..n -> Items] : n \in 1..MaxItems }

\* len(lead)
LeadLen(lead) ==
    CASE lead = "" -> 0
      [] lead = "sk-" -> 3
      [] lead = "sk_live_" -> 8
      [] lead = "Bearer " -> 7
      [] lead = "TOKEN=" -> 6
      [] lead = "api_key=" -> 8
      [] lead = "://u:" -> 5

\* len("[REDACTED:" + name + "]") of the tokens a URL password can be when
\* URL_PASSWORD searches the text (redaction.py:35-154, the replacements).
TokenLen(tag) ==
    CASE tag = "AWS_SECRET_KEY" -> 25
      [] tag = "URL_PASSWORD" -> 19

\* The lead's last character belongs to [A-Za-z0-9/+=], so the lookbehind
\* of AWS_SECRET_KEY fails in front of the body.
LeadEndsInBase64Class(lead) == lead \in {"TOKEN=", "api_key="}

\* pattern.pattern matches in the item (redaction.py:35-154). The patterns
\* whose fixed text (sk-ant-, AIza, AKIA, ghp_, gho_, ghu_, xox, sk_test_,
\* -----BEGIN) no item of Items holds match nothing here. A replacement
\* token holds brackets and a colon, which no class of a pattern admits but
\* the classes [^:]+ and [^@]+ of URL_PASSWORD: that pattern matches a URL
\* whose password is as written, is the token of AWS_SECRET_KEY, or is its
\* own replacement ://[USER]:[REDACTED:PASSWORD]@.
Matches(p, it) ==
    /\ p # "URL_PASSWORD" => it.tag = ""
    /\ CASE p = "URL_PASSWORD" -> it.lead = "://u:"
         [] p = "OPENAI_API_KEY" ->
                it.lead = "sk-" /\ it.shape = "alnum" /\ it.len >= OPENAI_MIN_LEN
         [] p = "AWS_SECRET_KEY" ->
                /\ it.shape = "alnum"
                /\ it.len = AWS_SECRET_LEN
                /\ ~LeadEndsInBase64Class(it.lead)
         [] p = "STRIPE_KEY" ->
                it.lead = "sk_live_" /\ it.shape = "alnum" /\ it.len >= STRIPE_MIN_LEN
         [] p = "BEARER_TOKEN" ->
                /\ it.lead = "Bearer "
                /\ it.shape \in {"alnum", "jwt"}
                /\ it.len >= BEARER_MIN_LEN
         [] p = "GENERIC_API_KEY" ->
                /\ it.lead = "api_key="
                /\ it.shape \in {"alnum", "jwt"}
                /\ it.len >= GENERIC_MIN_LEN
         [] p = "ENV_SECRET" ->
                /\ it.lead \in {"TOKEN=", "api_key="}
                /\ it.shape \in {"alnum", "jwt"}
                /\ it.len >= ENV_MIN_LEN
         [] p = "JWT" -> it.shape = "jwt"
         [] OTHER -> FALSE

\* The match covers lead and body; otherwise (AWS_SECRET_KEY, JWT) it covers
\* the body alone and the lead stays in the text.
MatchesWhole(p) ==
    p \in {"OPENAI_API_KEY", "STRIPE_KEY", "BEARER_TOKEN", "GENERIC_API_KEY",
           "ENV_SECRET", "URL_PASSWORD"}

\* The pattern has groups, so findall returns tuples and match_str is the
\* last group, the value (redaction.py:187-189).
HasGroups(p) == p \in {"GENERIC_API_KEY", "ENV_SECRET", "URL_PASSWORD"}

\* match_str (redaction.py:187-191): the characters of the full match, or of
\* the last group, each named by its position in match_str.
MatchStr(p, it) ==
    LET n == IF it.tag # ""
             THEN TokenLen(it.tag)
             ELSE IF MatchesWhole(p) /\ ~HasGroups(p)
                  THEN LeadLen(it.lead) + it.len
                  ELSE it.len
    IN  [i \in 1..n |-> ToString(i)]

\* redaction.py:194 and 235:
\* match_str[:4] + "..." + match_str[-4:] if len(match_str) > 12 else "***"
PreviewAlways(match_str) ==
    SubSeq(match_str, 1, Min(PREVIEW_EDGE, Len(match_str)))
    \o << ".", ".", "." >>
    \o SubSeq(match_str, Max(1, Len(match_str) - PREVIEW_EDGE + 1), Len(match_str))

Preview(match_str) ==
    IF Len(match_str) > PREVIEW_MIN_LEN
    THEN SubSeq(match_str, 1, PREVIEW_EDGE)
         \o << ".", ".", "." >>
         \o SubSeq(match_str, Len(match_str) - PREVIEW_EDGE + 1, Len(match_str))
    ELSE << "*", "*", "*" >>

\* pattern.pattern.findall(text): the matching items in text order.
FindAll(p, txt) == SelectSeq(txt, LAMBDA it : Matches(p, it))

\* The records one pattern appends (redaction.py:186-198, 229-240).
RecordsOf(p, txt) ==
    LET hits == FindAll(p, txt)
    IN  [k \in 1..Len(hits) |->
            [pattern |-> p, preview |-> Preview(MatchStr(p, hits[k]))]]

\* The match_str of each of those records.
MatchStrsOf(p, txt) ==
    LET hits == FindAll(p, txt)
    IN  [k \in 1..Len(hits) |-> MatchStr(p, hits[k])]

\* pattern.pattern.sub(replacement, redacted) (redaction.py:201-202)
Sub(p, txt) ==
    [i \in 1..Len(txt) |->
        IF Matches(p, txt[i])
        THEN [txt[i] EXCEPT !.tag = p, !.whole = MatchesWhole(p)]
        ELSE txt[i]]

RECURSIVE RedactFrom(_, _, _, _)
\* The loop of redact_text from pattern k on (redaction.py:182-202): each
\* pattern searches the text the earlier patterns have already rewritten.
RedactFrom(k, txt, recs, strs) ==
    IF k > Len(REDACTION_PATTERNS)
    THEN [redacted_text |-> txt, redactions |-> recs, matched |-> strs]
    ELSE LET p == REDACTION_PATTERNS[k]
         IN  RedactFrom(k + 1, Sub(p, txt), recs \o RecordsOf(p, txt),
                        strs \o MatchStrsOf(p, txt))

RECURSIVE ScanFrom(_, _, _, _)
\* The loop of scan_for_secrets from pattern k on (redaction.py:227-240):
\* every pattern searches the text as given.
ScanFrom(k, txt, recs, strs) ==
    IF k > Len(REDACTION_PATTERNS)
    THEN [detected |-> recs, matched |-> strs]
    ELSE LET p == REDACTION_PATTERNS[k]
         IN  ScanFrom(k + 1, txt, recs \o RecordsOf(p, txt),
                      strs \o MatchStrsOf(p, txt))

\* redact_text(text) on a text of items.
RedactText ==
    /\ op = "redact_or_scan"
    /\ LET r == RedactFrom(1, original_text, <<>>, <<>>)
       IN  /\ redacted' = r.redacted_text
           /\ redactions' = r.redactions
           /\ matched' = r.matched
    /\ op' = "redacted"
    /\ UNCHANGED <<original_text, detected, warning, ingestVars, triageVars, relevanceVars, importVars,
                   mcpVars, storeVars, program, captureVars>>

\* redact_text(text) on the redacted_text an earlier call returned.
RedactAgain ==
    /\ op = "redacted"
    /\ LET r == RedactFrom(1, redacted, <<>>, <<>>)
       IN  /\ original_text' = redacted
           /\ redacted' = r.redacted_text
           /\ redactions' = r.redactions
           /\ matched' = r.matched
    /\ op' = "redacted_again"
    /\ UNCHANGED <<detected, warning, ingestVars, triageVars, relevanceVars, importVars,
                   mcpVars, storeVars, program, captureVars>>

\* scan_for_secrets(text) on a text of items.
ScanForSecrets ==
    /\ op = "redact_or_scan"
    /\ LET r == ScanFrom(1, original_text, <<>>, <<>>)
       IN  /\ detected' = r.detected
           /\ matched' = r.matched
    /\ op' = "scanned"
    /\ UNCHANGED <<original_text, redacted, redactions, warning, ingestVars,
                   triageVars, relevanceVars, importVars,
                   mcpVars, storeVars, program, captureVars>>

\* print_redaction_warning(redactions), as the adapters call it when
\* redaction_count > 0: one console line for each record.
PrintRedactionWarning ==
    /\ op = "redacted"
    /\ redactions # <<>>
    /\ warning' = [k \in 1..Len(redactions) |->
                     << redactions[k].pattern, redactions[k].preview >>]
    /\ op' = "warned"
    /\ UNCHANGED <<original_text, redacted, redactions, detected, matched,
                   ingestVars, triageVars, relevanceVars, importVars,
                   mcpVars, storeVars, program, captureVars>>

\* --------------------------------------------------------------- ingestion

\* The items an ingested document is made of: a plain word, an OpenAI key,
\* a short secret in an assignment, a bearer token of 40 characters.
IngestItems ==
    { Item("", "word", PREVIEW_EDGE),
      Item("sk-", "alnum", STRIPE_MIN_LEN),
      Item("TOKEN=", "alnum", ENV_MIN_LEN),
      Item("Bearer ", "alnum", AWS_SECRET_LEN) }

IngestTexts == { << it >> : it \in IngestItems }

\* A document has a heading (the first "# " line of a markdown file, the
\* "title" of a JSON file, the first words of a text; <<>> when it has
\* none), a body, and the text that follows the first escaped quote of the
\* body's JSON string (<<>> when there is none).
Documents ==
    [heading : IngestTexts \cup {<<>>}, body : IngestTexts,
     after : IngestTexts \cup {<<>>}]

\* The whole text of a document.
FullText(doc) == doc.heading \o doc.body \o doc.after

\* redact_text(text).redacted_text
RedactedText(txt) == RedactFrom(1, txt, <<>>, <<>>).redacted_text

\* The file's name, the title of a file that names none.
FilenameTitle == << [lead |-> "", shape |-> "filename", len |-> PREVIEW_EDGE,
                     tag |-> "", whole |-> FALSE] >>

\* f"Antigravity session: {session_uuid[:8]}" (antigravity.py:168)
SessionTitle == << [lead |-> "", shape |-> "uuid", len |-> ENV_MIN_LEN,
                    tag |-> "", whole |-> FALSE] >>

\* _extract_title (gemini.py:196-205, antigravity.py:322-330): the first
\* characters of the first message, here its first item.
ExtractTitle(messages) ==
    IF messages = <<>> \/ messages[1] = <<>> THEN <<>>
    ELSE SubSeq(messages[1], 1, 1)

ContextSession(title, messages) == [title |-> title, messages |-> messages]

\* ingest_text (gemini.py:35-64, antigravity.py:71-96): pasted text, a
\* plain-text file, and for gemini a markdown file too (gemini.py:87).
\* The text is redacted first; the messages and the title are cut from the
\* redacted text.
IngestText ==
    /\ op = "ingest"
    /\ \/ method \in {"paste", "txt"}
       \/ method = "md" /\ adapter = "gemini"
    /\ LET messages == << RedactedText(FullText(document)) >>
       IN  context_session' = << ContextSession(ExtractTitle(messages), messages) >>
    /\ op' = "ingested"
    /\ UNCHANGED <<adapter, method, document, context_store, redactVars,
                   triageVars, relevanceVars, importVars,
                   mcpVars, storeVars, program, captureVars>>

\* _parse_json_file (gemini.py:143-194, antigravity.py:244-290): each
\* value the expression "content"\s*:\s*"([^"]*)" captures is redacted and
\* replaced in the file's text; the capture ends at the first quote, an
\* escaped one included. The title is data.get("title", filename).
ParseJsonFile ==
    /\ op = "ingest"
    /\ method = "json"
    /\ LET messages == << RedactedText(document.body) \o document.after >>
           title == IF document.heading # <<>> THEN document.heading
                    ELSE FilenameTitle
       IN  context_session' = << ContextSession(title, messages) >>
    /\ op' = "ingested"
    /\ UNCHANGED <<adapter, method, document, context_store, redactVars,
                   triageVars, relevanceVars, importVars,
                   mcpVars, storeVars, program, captureVars>>

\* _parse_markdown_artifact (antigravity.py:292-320): the message holds the
\* redacted content; the title is the first heading found in content.
ParseMarkdownArtifact ==
    /\ op = "ingest"
    /\ method = "md"
    /\ adapter = "antigravity"
    /\ LET messages == << RedactedText(FullText(document)) >>
           title == IF document.heading # <<>> THEN document.heading
                    ELSE FilenameTitle
       IN  context_session' = << ContextSession(title, messages) >>
    /\ op' = "ingested"
    /\ UNCHANGED <<adapter, method, document, context_store, redactVars,
                   triageVars, relevanceVars, importVars,
                   mcpVars, storeVars, program, captureVars>>

\* ingest_session (antigravity.py:125-175): each markdown artifact of the
\* discovered session is redacted into one message; the title names the
\* session's uuid.
IngestSession ==
    /\ op = "ingest"
    /\ method = "session"
    /\ adapter = "antigravity"
    /\ context_session' =
        << ContextSession(SessionTitle, << RedactedText(FullText(document)) >>) >>
    /\ op' = "ingested"
    /\ UNCHANGED <<adapter, method, document, context_store, redactVars,
                   triageVars, relevanceVars, importVars,
                   mcpVars, storeVars, program, captureVars>>

\* save_context(context_session.to_dict()) (cli.py:268, mcp_server.py:383)
SaveContext ==
    /\ op = "ingested"
    /\ context_store' = Append(context_store, context_session[1])
    /\ op' = "saved"
    /\ UNCHANGED <<adapter, method, document, context_session, redactVars,
                   triageVars, relevanceVars, importVars,
                   mcpVars, storeVars, program, captureVars>>

\* ------------------------------------------------------------------ triage

\* The contents truncate_evidence is called on: up to MaxContentLines lines,
\* each an ordinary line or one that holds the word "error" or "ERROR", the
\* last one with or without its newline.
Contents ==
    UNION { { [i \in 1..n |->
                Atom(i, IF i = n THEN last ELSE "LF", kinds[i])] :
              kinds \in [1..n -> {"data", "error", "ERROR"}],
              last \in {"LF", "NONE"} } :
            n \in 0..MaxContentLines }

\* truncate_evidence(content, max_lines, preserve_keywords), called on its
\* own.
TruncateEvidence ==
    /\ op = "truncate"
    /\ output' = << truncate_evidence(arg_content, arg_max_lines, arg_keywords) >>
    /\ op' = "truncated"
    /\ UNCHANGED <<arg_content, arg_max_lines, arg_keywords, redactVars,
                   ingestVars, relevanceVars, importVars,
                   mcpVars, storeVars, program, captureVars>>

\* --------------------------------------------------------------- relevance

\* git_context.py:322
TEST_KEYWORDS == << "pass", "fail", "error", "assert", "test" >>

DirNames == {"src", "core"}

\* A changed filename: the directories of its path, and whether its name
\* holds "test_" or "_test" (git_context.py:320).
Filenames ==
    [dirs : UNION { [1..n -> DirNames] : n \in 0..MaxPathDirs },
     test : BOOLEAN]

\* What an evidence text holds, lower-cased: which directory names, whether
\* the file's stem, whether the file's whole name (which holds the stem),
\* and which of the test keywords. The stem of a test file holds "test".
Evidences ==
    [dirs : SUBSET DirNames, stem : BOOLEAN, name : BOOLEAN,
     keywords : SUBSET { TEST_KEYWORDS[k] : k \in 1..Len(TEST_KEYWORDS) }]

\* basename in evidence_lower, for a file of that kind
StemMentioned(ev, fn) ==
    ev.stem /\ (fn.test => "test" \in ev.keywords)

\* The number of parts of the path that evidence_lower holds
\* (git_context.py:314-317): each directory, as often as it occurs, and the
\* file's name.
PartsMentioned(ev, fn) ==
    Cardinality({ i \in 1..Len(fn.dirs) : fn.dirs[i] \in ev.dirs })
    + (IF ev.name /\ StemMentioned(ev, fn) THEN 1 ELSE 0)

\* The score of one filename before the cap (git_context.py:306-325).
Score(ev, fn) ==
    (IF StemMentioned(ev, fn) THEN STEM_SCORE ELSE 0)
    + PART_SCORE * PartsMentioned(ev, fn)
    + (IF fn.test THEN KEYWORD_SCORE * Cardinality(ev.keywords) ELSE 0)

\* The same, never capped.
Uncapped(cap, score) == score

\* min(1.0, score) (git_context.py:327)
Capped(cap, score) == Min(cap, score)

\* map_evidence_to_files(evidence_content, changed_files)
MapEvidenceToFiles ==
    /\ op = "map"
    /\ relevance' =
        << [fn \in { changed_files[i] : i \in 1..Len(changed_files) } |->
                Capped(SCORE_CAP, Score(evidence_content[1], fn))] >>
    /\ op' = "mapped"
    /\ UNCHANGED <<evidence_content, changed_files, redactVars, ingestVars,
                   triageVars, importVars, mcpVars, storeVars, program, captureVars>>

\* ------------------------------------------------------------------ import

LogContents == {"build", "tests"}

\* What a path may name: nothing, a directory, a file the user may not read,
\* a readable file with its content.
LogFiles ==
    { <<"missing">>, <<"dir">>, <<"unreadable">> }
        \cup { <<"file", c>> : c \in LogContents }

\* log_path.exists() (capture.py:222); typer's exists=True (cli.py:118)
LogExistsAlways(f) == TRUE

LogExists(f) == f # <<"missing">>

\* An exception leaves capture_log_file. The library caller receives it;
\* capture (cli.py:132-135) turns FileNotFoundError into exit status 1 and
\* catches nothing else, so any other exception ends the process with a
\* traceback.
ImportRaise(e, printed) ==
    /\ import_exc' = e
    /\ op' = "import_end"
    /\ IF import_caller = "cli"
       THEN /\ import_exit' = <<ERROR_EXIT>>
            /\ import_console' = import_console \o printed \o
                (IF e = "FileNotFoundError" THEN <<>> ELSE <<"traceback">>)
       ELSE /\ import_exit' = <<>>
            /\ import_console' = import_console \o printed

\* capture: the --log option is declared exists=True, readable=True, so the
\* path is checked before the command's body runs; a rejected value is a
\* usage error (exit status 2).
ImportValidate ==
    /\ op = "import_cli"
    /\ IF ~LogExists(log_file)
       THEN /\ import_console' = Append(import_console, "usage_does_not_exist")
            /\ import_exit' = <<2>>
            /\ op' = "import_end"
       ELSE IF log_file = <<"unreadable">>
       THEN /\ import_console' = Append(import_console, "usage_not_readable")
            /\ import_exit' = <<2>>
            /\ op' = "import_end"
       ELSE /\ op' = "import_exists"
            /\ UNCHANGED <<import_console, import_exit>>
    /\ UNCHANGED <<import_caller, log_given, log_file, evidence_logs,
                   import_result, import_exc, redactVars, ingestVars,
                   triageVars, relevanceVars, mcpVars, storeVars, program, captureVars>>

\* capture_log_file: if not log_path.exists(): print the error and raise
\* FileNotFoundError.
ImportExists ==
    /\ op = "import_exists"
    /\ IF ~LogExists(log_file)
       THEN ImportRaise("FileNotFoundError", <<"log_file_not_found">>)
       ELSE /\ op' = "import_read"
            /\ UNCHANGED <<import_console, import_exc, import_exit>>
    /\ UNCHANGED <<import_caller, log_given, log_file, evidence_logs,
                   import_result, redactVars, ingestVars, triageVars,
                   relevanceVars, mcpVars, storeVars, program, captureVars>>

\* content = log_path.read_text(...), then the Importing panel,
\* save_imported_log, the two closing lines and the CaptureResult.
ImportRead ==
    /\ op = "import_read"
    /\ CASE log_file = <<"missing">> ->
                /\ ImportRaise("FileNotFoundError", <<>>)
                /\ UNCHANGED <<evidence_logs, import_result>>
         [] log_file = <<"dir">> ->
                /\ ImportRaise("IsADirectoryError", <<>>)
                /\ UNCHANGED <<evidence_logs, import_result>>
         [] log_file = <<"unreadable">> ->
                /\ ImportRaise("PermissionError", <<>>)
                /\ UNCHANGED <<evidence_logs, import_result>>
         [] OTHER ->
                /\ evidence_logs' = Append(evidence_logs,
                        [type |-> "imported_log", content |-> log_file[2]])
                /\ import_console' = import_console \o
                        <<"importing", "imported_as_session", "evidence_saved">>
                /\ import_result' = << [exit_code |-> 0, stdout |-> log_file[2]] >>
                /\ import_exit' = IF import_caller = "cli" THEN <<0>> ELSE <<>>
                /\ op' = "import_end"
                /\ UNCHANGED import_exc
    /\ UNCHANGED <<import_caller, log_given, log_file, redactVars, ingestVars,
                   triageVars, relevanceVars, mcpVars, storeVars, program, captureVars>>

\* Another process removes the log file while the import runs.
RemoveLog ==
    /\ op \in {"import_exists", "import_read"}
    /\ log_file[1] = "file"
    /\ log_file' = <<"missing">>
    /\ UNCHANGED <<op, import_caller, log_given, evidence_logs, import_console,
                   import_result, import_exc, import_exit, redactVars,
                   ingestVars, triageVars, relevanceVars, mcpVars, storeVars, program, captureVars>>

\* -------------------------------------------------------------- MCP server

\* The tools call_tool dispatches (mcp_server.py:184-198).
Tools ==
    {"run_and_capture", "get_recent_evidence", "generate_report",
     "ingest_context", "get_diff", "analyze_code", "full_review"}

\* What the working directory is to GitPython: a repository whose diff can
\* be taken, no repository, GitPython not installed, a repository whose
\* merge base cannot be found, a repository whose diff raises.
Repos == {"ok", "not_a_repo", "no_gitpython", "no_merge_base", "diff_fails"}

Environments ==
    [repo : Repos,
     config : {"ok", "corrupt"},     \* .ai/config.json
     api_key : BOOLEAN,              \* config.get_api_key() finds a key
     browser : BOOLEAN,              \* webbrowser.open succeeds
     evidence : BOOLEAN,             \* the Evidence Store holds a session
     sessions : BOOLEAN]             \* discover_sessions() finds a session

Arguments ==
    [command : {"empty", "plain"},
     staged_only : BOOLEAN,
     open_browser : BOOLEAN,
     source : {"antigravity", "gemini", "unknown"}]

\* What get_git_repo prints (git_context.py:66-74): console is Console(),
\* which writes to stdout.
GetGitRepoPrints(env) ==
    IF env.repo = "no_gitpython" THEN <<"gitpython_not_installed">> ELSE <<>>

\* What get_diff() prints (git_context.py:148-160, 225-227), with
\* find_merge_base's warning (126-128).
GetDiffPrints(env) ==
    CASE env.repo \in {"not_a_repo", "no_gitpython"} ->
            GetGitRepoPrints(env) \o <<"not_a_git_repository">>
      [] env.repo = "no_merge_base" ->
            <<"merge_base_warning", "no_base_reference">>
      [] env.repo = "diff_fails" -> <<"error_getting_diff">>
      [] OTHER -> <<>>

\* What get_staged_diff() prints (git_context.py:240-284).
GetStagedDiffPrints(env) ==
    CASE env.repo = "no_gitpython" -> GetGitRepoPrints(env)
      [] env.repo = "diff_fails" -> <<"error_getting_staged_diff">>
      [] OTHER -> <<>>

\* Whether the diff the handler asked for is None.
NoDiff(env, staged) ==
    IF staged
    THEN env.repo \in {"not_a_repo", "no_gitpython", "diff_fails"}
    ELSE env.repo # "ok"

DiffPrints(env, staged) ==
    IF staged THEN GetStagedDiffPrints(env) ELSE GetDiffPrints(env)

\* What load_config prints (config.py:91-96).
LoadConfigPrints(env) ==
    IF env.config = "corrupt" THEN <<"config_warning">> ELSE <<>>

\* What open_in_browser prints (renderer.py:813-818).
OpenInBrowserPrints(env, open) ==
    IF open /\ ~env.browser THEN <<"browser_warning">> ELSE <<>>

\* A handler returns: what it printed on each channel, and its response.
Respond(out, err, r) ==
    /\ primary' = primary \o out
    /\ diagnostics' = diagnostics \o err
    /\ reply' = r
    /\ op' = "replied"
    /\ UNCHANGED <<tool, arguments, environment, redactVars, ingestVars,
                   triageVars, relevanceVars, importVars, storeVars, program, captureVars>>

\* _handle_run_and_capture: run_and_capture(command, cwd, quiet=True). With
\* quiet the header, the mirrored lines, the footer and the saved path all go
\* to stderr (capture.py:67, 126-134).
McpRunAndCapture ==
    /\ op = "serving"
    /\ tool = "run_and_capture"
    /\ IF arguments.command = "empty"
       THEN Respond(<<>>, <<>>, "error")
       ELSE Respond(<<>>, <<"mirrored_output">>, "result")

\* _handle_get_recent_evidence
McpGetRecentEvidence ==
    /\ op = "serving"
    /\ tool = "get_recent_evidence"
    /\ Respond(<<>>, <<>>, "result")

\* _handle_generate_report
McpGenerateReport ==
    /\ op = "serving"
    /\ tool = "generate_report"
    /\ IF ~environment.evidence
       THEN Respond(<<>>, <<>>, "error")
       ELSE Respond(OpenInBrowserPrints(environment, arguments.open_browser),
                    <<>>, "result")

\* _handle_ingest_context
McpIngestContext ==
    /\ op = "serving"
    /\ tool = "ingest_context"
    /\ IF arguments.source = "antigravity" /\ environment.sessions
       THEN Respond(<<>>, <<>>, "result")
       ELSE Respond(<<>>, <<>>, "error")

\* _handle_get_diff
McpGetDiff ==
    /\ op = "serving"
    /\ tool = "get_diff"
    /\ Respond(DiffPrints(environment, arguments.staged_only), <<>>,
               IF NoDiff(environment, arguments.staged_only)
               THEN "error" ELSE "result")

\* _handle_analyze_code: get_diff(), then load_config(), then the LLM.
McpAnalyze ==
    /\ op = "serving"
    /\ tool = "analyze_code"
    /\ IF NoDiff(environment, FALSE)
       THEN Respond(GetDiffPrints(environment), <<>>, "error")
       ELSE Respond(LoadConfigPrints(environment), <<>>,
                    IF environment.api_key THEN "result" ELSE "error")

\* _handle_full_review_v2: the diff, load_config(), the LLM, the report and
\* open_in_browser.
McpReview ==
    /\ op = "serving"
    /\ tool = "full_review"
    /\ IF NoDiff(environment, arguments.staged_only)
       THEN Respond(DiffPrints(environment, arguments.staged_only), <<>>, "error")
       ELSE IF ~environment.api_key
       THEN Respond(DiffPrints(environment, arguments.staged_only)
                        \o LoadConfigPrints(environment), <<>>, "error")
       ELSE Respond(DiffPrints(environment, arguments.staged_only)
                        \o LoadConfigPrints(environment)
                        \o OpenInBrowserPrints(environment, arguments.open_browser),
                    <<>>, "result")

\* ------------------------------------------------------------------ storage

\* The values str(uuid.uuid4())[:8] may take (storage.py:61-63): eight
\* hexadecimal digits of a random UUID, two of them here.
SessionIds == {"1f0a9c3e", "7b2d4e80"}

\* A file is written under a name (storage.py:110-113, 149-152): the
\* former content of that name, if any, is replaced.
WriteFile(dir, name, record) ==
    [n \in DOMAIN dir \cup {name} |-> IF n = name THEN record ELSE dir[n]]

\* A session completes: its record goes to the file its name gives.
StoreRecord(name, record) ==
    /\ op = "storing"
    /\ Len(written) < MaxSessions
    /\ evidence_dir' = WriteFile(evidence_dir, name, record)
    /\ written' = Append(written, [name |-> name, record |-> record])
    /\ UNCHANGED <<op, redactVars, ingestVars, triageVars, relevanceVars,
                   importVars, mcpVars, program, captureVars>>

\* run_and_capture: generate_session_id(), then save_evidence writes
\* session_<id>.json. The command stands for everything the session
\* captured: no two sessions capture the same.
SaveEvidence(id) ==
    StoreRecord(<<"session", id>>,
                [session_id |-> id, command |-> Len(written) + 1])

\* capture_log_file: generate_session_id(), then save_imported_log writes
\* log_<id>.json.
SaveImportedLog(id) ==
    StoreRecord(<<"log", id>>,
                [session_id |-> id, type |-> "imported_log",
                 content |-> Len(written) + 1])

\* --------------------------------------------------------- specifications

ChildStep ==
    \/ \E f \in Fds, kind \in ChunkKinds : ChildWrite(f, kind)
    \/ ShellNotFound
    \/ \E f \in Fds : ChildClose(f)
    \/ \E c \in ExitCodes \cup {SHELL_NOT_FOUND} : ChildExit(c)

EngineStep ==
    \/ Call
    \/ Header
    \/ Spawn
    \/ SpawnNotFound
    \/ SpawnError
    \/ Select
    \/ LoopExit
    \/ ReadFill
    \/ ReadLine
    \/ ReadEof
    \/ Wait
    \/ Footer
    \/ Save

CallerStep ==
    \/ CliExit
    \/ McpReject
    \/ McpRespond
    \/ McpError

FaultStep ==
    \/ SaveFail
    \/ CliCrash
    \/ Interrupt
    \/ \E c \in Channels : BreakSink(c)

ReviewStep ==
    \/ RunReview
    \/ McpAnalyzeCode
    \/ McpFullReview

\* The console accepts every write, the store accepts every record and no
\* interrupt arrives.
Next == ChildStep \/ EngineStep \/ CallerStep \/ ReviewStep

Spec == Init /\ [][Next]_vars

\* The same, with the faults of the environment: a console channel may
\* break, the store may fail, an interrupt may arrive.
NextFaults == Next \/ FaultStep

SpecFaults == Init /\ [][NextFaults]_vars

\* run_and_capture on a child that follows a program. The engine and the
\* child are processes the system keeps running: a step that stays possible
\* is eventually taken.
InitLive ==
    /\ op = "none"
    /\ RedactIdle
    /\ IngestIdle
    /\ TriageIdle
    /\ RelevanceIdle
    /\ ImportIdle
    /\ McpIdle
    /\ StoreIdle
    /\ CaptureStart
    /\ program \in IF command = "plain" THEN Programs ELSE {<<>>}

ProgramStep ==
    \/ ProgramWrite
    \/ ShellNotFound
    \/ ProgramExit

NextLive == ProgramStep \/ EngineStep \/ CallerStep

SpecLive == InitLive /\ [][NextLive]_vars /\ WF_vars(NextLive)

\* redact_text and scan_for_secrets called on every text of Texts, and
\* print_redaction_warning on what redact_text found.
InitRedact ==
    /\ CaptureIdle
    /\ ProgramIdle
    /\ StoreIdle
    /\ McpIdle
    /\ ImportIdle
    /\ op = "redact_or_scan"
    /\ original_text \in Texts
    /\ redacted = <<>>
    /\ redactions = <<>>
    /\ detected = <<>>
    /\ matched = <<>>
    /\ warning = <<>>
    /\ adapter = "none"
    /\ method = "none"
    /\ document = <<>>
    /\ context_session = <<>>
    /\ context_store = <<>>
    /\ arg_content = <<>>
    /\ arg_max_lines = 0
    /\ arg_keywords = {}
    /\ output = <<>>
    /\ evidence_content = <<>>
    /\ changed_files = <<>>
    /\ relevance = <<>>

NextRedact == RedactText \/ RedactAgain \/ ScanForSecrets \/ PrintRedactionWarning

SpecRedact == InitRedact /\ [][NextRedact]_vars

\* Every document ingested by every adapter on every path it offers.
InitIngest ==
    /\ CaptureIdle
    /\ ProgramIdle
    /\ StoreIdle
    /\ McpIdle
    /\ ImportIdle
    /\ op = "ingest"
    /\ original_text = <<>>
    /\ redacted = <<>>
    /\ redactions = <<>>
    /\ detected = <<>>
    /\ matched = <<>>
    /\ warning = <<>>
    /\ adapter \in {"gemini", "antigravity"}
    /\ method \in IF adapter = "antigravity"
                  THEN {"paste", "txt", "json", "md", "session"}
                  ELSE {"paste", "txt", "json", "md"}
    /\ document \in Documents
    /\ context_session = <<>>
    /\ context_store = <<>>
    /\ arg_content = <<>>
    /\ arg_max_lines = 0
    /\ arg_keywords = {}
    /\ output = <<>>
    /\ evidence_content = <<>>
    /\ changed_files = <<>>
    /\ relevance = <<>>

NextIngest ==
    \/ IngestText
    \/ ParseJsonFile
    \/ ParseMarkdownArtifact
    \/ IngestSession
    \/ SaveContext

SpecIngest == InitIngest /\ [][NextIngest]_vars

\* truncate_evidence called on every content of Contents with every budget
\* up to MaxLineBudget and every set of keywords.
InitTriage ==
    /\ CaptureIdle
    /\ ProgramIdle
    /\ StoreIdle
    /\ McpIdle
    /\ ImportIdle
    /\ op = "truncate"
    /\ original_text = <<>>
    /\ redacted = <<>>
    /\ redactions = <<>>
    /\ detected = <<>>
    /\ matched = <<>>
    /\ warning = <<>>
    /\ adapter = "none"
    /\ method = "none"
    /\ document = <<>>
    /\ context_session = <<>>
    /\ context_store = <<>>
    /\ arg_content \in Contents
    /\ arg_max_lines \in 0..MaxLineBudget
    /\ arg_keywords \in SUBSET {"data", "error", "ERROR"}
    /\ output = <<>>
    /\ evidence_content = <<>>
    /\ changed_files = <<>>
    /\ relevance = <<>>

NextTriage == TruncateEvidence

SpecTriage == InitTriage /\ [][NextTriage]_vars

\* map_evidence_to_files called on every evidence of Evidences and every
\* list of up to MaxChangedFiles filenames.
InitRelevance ==
    /\ CaptureIdle
    /\ ProgramIdle
    /\ StoreIdle
    /\ McpIdle
    /\ ImportIdle
    /\ op = "map"
    /\ original_text = <<>>
    /\ redacted = <<>>
    /\ redactions = <<>>
    /\ detected = <<>>
    /\ matched = <<>>
    /\ warning = <<>>
    /\ adapter = "none"
    /\ method = "none"
    /\ document = <<>>
    /\ context_session = <<>>
    /\ context_store = <<>>
    /\ arg_content = <<>>
    /\ arg_max_lines = 0
    /\ arg_keywords = {}
    /\ output = <<>>
    /\ evidence_content \in { << ev >> : ev \in Evidences }
    /\ changed_files \in UNION { [1..n -> Filenames] : n \in 0..MaxChangedFiles }
    /\ relevance = <<>>

NextRelevance == MapEvidenceToFiles

SpecRelevance == InitRelevance /\ [][NextRelevance]_vars

\* An import of every kind of path, from the command line and from the
\* library, into a store that already holds up to MaxStoredLogs records.
InitImport ==
    /\ CaptureIdle
    /\ ProgramIdle
    /\ StoreIdle
    /\ McpIdle
    /\ original_text = <<>>
    /\ redacted = <<>>
    /\ redactions = <<>>
    /\ detected = <<>>
    /\ matched = <<>>
    /\ warning = <<>>
    /\ adapter = "none"
    /\ method = "none"
    /\ document = <<>>
    /\ context_session = <<>>
    /\ context_store = <<>>
    /\ arg_content = <<>>
    /\ arg_max_lines = 0
    /\ arg_keywords = {}
    /\ output = <<>>
    /\ evidence_content = <<>>
    /\ changed_files = <<>>
    /\ relevance = <<>>
    /\ import_caller \in {"cli", "lib"}
    /\ op = IF import_caller = "cli" THEN "import_cli" ELSE "import_exists"
    /\ log_given \in LogFiles
    /\ log_file = log_given
    /\ evidence_logs \in UNION { [1..n -> [type : {"imported_log"},
                                           content : LogContents]] :
                                 n \in 0..MaxStoredLogs }
    /\ import_console = <<>>
    /\ import_result = <<>>
    /\ import_exc = "none"
    /\ import_exit = <<>>

NextImport == ImportValidate \/ ImportExists \/ ImportRead \/ RemoveLog

SpecImport == InitImport /\ [][NextImport]_vars

\* The MCP server receives one call of any tool, with any arguments, in
\* any environment.
InitMcp ==
    /\ CaptureIdle
    /\ ProgramIdle
    /\ StoreIdle
    /\ RedactIdle
    /\ IngestIdle
    /\ TriageIdle
    /\ RelevanceIdle
    /\ ImportIdle
    /\ op = "serving"
    /\ tool \in Tools
    /\ arguments \in Arguments
    /\ environment \in Environments
    /\ primary = <<>>
    /\ diagnostics = <<>>
    /\ reply = "none"

NextMcp ==
    \/ McpRunAndCapture
    \/ McpGetRecentEvidence
    \/ McpGenerateReport
    \/ McpIngestContext
    \/ McpGetDiff
    \/ McpAnalyze
    \/ McpReview

SpecMcp == InitMcp /\ [][NextMcp]_vars

\* Captures and imports made one after another into an empty store.
InitStore ==
    /\ CaptureIdle
    /\ ProgramIdle
    /\ RedactIdle
    /\ IngestIdle
    /\ TriageIdle
    /\ RelevanceIdle
    /\ ImportIdle
    /\ McpIdle
    /\ op = "storing"
    /\ evidence_dir = <<>>
    /\ written = <<>>

NextStore ==
    \/ \E id \in SessionIds : SaveEvidence(id)
    \/ \E id \in SessionIds : SaveImportedLog(id)

SpecStore == InitStore /\ [][NextStore]_vars

\* ------------------------------------------------------------- properties

\* run_and_capture has returned a CaptureResult and no except clause ran.
ReturnedNormally == result # <<>> /\ failure = "none"

\* C1 as stated: on the normal path each buffer equals exactly what the
\* child wrote to that stream, piece for piece.
C1ExactBytes ==
    ReturnedNormally =>
        /\ result[1].stdout = wrote["out"]
        /\ result[1].stderr = wrote["err"]

\* C1 amended: on the normal path each buffer equals what the child wrote to
\* that stream after universal-newline translation ("\r\n" read as "\n"):
\* no line is lost, duplicated or reordered within a stream.
C1LinesTranslated ==
    ReturnedNormally =>
        /\ result[1].stdout = Translate(wrote["out"])
        /\ result[1].stderr = Translate(wrote["err"])
        /\ Concat(stdout_buffer) = result[1].stdout
        /\ Concat(stderr_buffer) = result[1].stderr

\* A normal return after the child wrote two lines to one stream, the first
\* of them ending in "\r\n".
C1Witness ==
    /\ ReturnedNormally
    /\ \E f \in Fds :
        /\ Len(wrote[f]) = 2
        /\ wrote[f][1].term = "CRLF"
        /\ wrote[f][2].term = "LF"

\* C2: in quiet mode nothing is ever written to the primary channel
\* (stdout), whatever the outcome: mirrored lines, diagnostics and notices
\* all go to stderr or are suppressed.
C2QuietPrimaryClean == quiet => chan["stdout"] = <<>>

\* A quiet run that mirrored a stdout line and a stderr line and returned.
C2Witness ==
    /\ quiet
    /\ result # <<>>
    /\ result[1].stdout # <<>>
    /\ result[1].stderr # <<>>
    /\ Len(chan["stderr"]) >= 2

\* The evidence a review would send had it redacted what triage produced.
RedactedBlock(data) ==
    << Atom(0, "LF", "empty"), Atom(0, "LF", "evidence_header"),
       Atom(data.exit_code, "LF", "exit_code") >>
    \o redact_text(truncate_evidence(data.stdout \o data.stderr,
                                     DEFAULT_MAX_LINES, DefaultKeywords))
    \o << Atom(0, "LF", "empty") >>

\* C3 as stated: every evidence text placed in a prompt sent to the LLM has
\* been compressed by triage and then passed through redact.
C3NoBypass ==
    \A i \in 1..Len(llmPrompts) :
        store # <<>> =>
            llmPrompts[i].evidence =
                JoinLines([k \in 1..Len(RecentSessions(store)) |->
                            RedactedBlock(RecentSessions(store)[k])])

\* C4 as stated: an invocation that is not interrupted hands the session to
\* save_evidence exactly once, whatever the execution outcome.
C4SavedExactlyOnce ==
    (pc \in {"done", "raised"} /\ ~interrupted) => saveCalls = 1

\* The executable cannot be found: the command names no executable and the
\* spawn does not fail for another reason (cwd not a directory) before the
\* lookup is reported.
ExecutableNotFound == command = "missing" /\ cwd # "notdir"

\* C5: when the executable cannot be found, run_and_capture does not raise:
\* it returns a session with exit_code 127 whose stderr holds a "not found"
\* diagnostic, and that session is the one persisted.
C5NotFoundIs127 ==
    (ExecutableNotFound /\ pc \in {"done", "raised", "end"}) =>
        /\ exc = "none"
        /\ result # <<>>
        /\ result[1].exit_code = 127
        /\ HasNotFound(result[1].stderr)
        /\ store = << result[1] >>

\* A command whose executable does not exist has been captured and returned.
C5Witness ==
    /\ command = "missing"
    /\ cwd = "ok"
    /\ pc = "done"
    /\ status = 127

\* C6 as stated: the recorded exit code is the child's own status, or 127
\* for the executable-not-found condition only, or 1 for any other
\* exception; 127 and 1 are synthesized for no other condition.
C6ExitCodeOrigins ==
    exit_code # <<>> =>
        \/ failure = "none" /\ proc = "exited" /\ exit_code = <<status>>
        \/ failure = "FileNotFoundError" /\ exit_code = <<127>> /\ command = "missing"
        \/ failure = "Exception" /\ exit_code = <<1>>

\* C7 as stated: a failed write to the live sink is swallowed: the capture
\* still returns, with the child's own exit code and every line buffered.
C7SinkFailureSwallowed ==
    (mirrorFailed /\ pc \in {"done", "raised", "end"}) =>
        /\ result # <<>>
        /\ result[1].exit_code = status
        /\ result[1].stdout = Translate(wrote["out"])
        /\ result[1].stderr = Translate(wrote["err"])

\* The ids of the pieces a text holds.
Ids(s) == { s[i].id : i \in 1..Len(s) }

\* C8: the two streams reach end-of-stream independently: a stream is
\* unregistered only once it is closed and drained, the loop ends only when
\* both are unregistered, and every piece written to a stream after the
\* other was unregistered is captured.
C8IndependentEof ==
    /\ pc \in {"loop", "readline", "wait"} =>
        \A f \in Fds :
            f \notin selector =>
                f \notin wopen /\ pipe[f] = <<>> /\ dbuf[f] = <<>>
    /\ pc = "wait" => selector = {}
    /\ ReturnedNormally =>
        lateWrites \subseteq (Ids(result[1].stdout) \cup Ids(result[1].stderr))

\* A normal return of a capture in which the child wrote to one stream
\* after the engine had unregistered the other.
C8Witness == ReturnedNormally /\ lateWrites # {}

\* C9 as stated: once an interrupt has arrived, the child is not left
\* running.
C9ChildNotOrphaned == interrupted => proc # "running"

\* The exit statuses of the CLI when the command itself failed.
CommandFailureExits ==
    { c \in ExitCodes \cup {NOT_FOUND_EXIT, ERROR_EXIT, SHELL_NOT_FOUND} : c # 0 }

\* C10 as stated: a failure of save_evidence is not turned into a
\* synthesized exit code, returns no CaptureResult, and the CLI user observes
\* an outcome different from every outcome of a failed command.
C10PersistenceDistinct ==
    exc = "PersistenceError" =>
        /\ result = <<>>
        /\ failure = "none" => exit_code = <<status>>
        /\ (caller = "cli" /\ pc = "end") => cliExit[1] \notin CommandFailureExits

\* The patterns the ordering rule calls provider-specific and
\* high-specificity, and the ones it calls generic catch-alls.
SpecificPatterns ==
    { "OPENAI_API_KEY", "ANTHROPIC_API_KEY", "GOOGLE_API_KEY",
      "AWS_ACCESS_KEY", "GITHUB_TOKEN", "GITHUB_OAUTH", "GITHUB_APP",
      "SLACK_TOKEN", "STRIPE_KEY", "STRIPE_TEST_KEY", "BEARER_TOKEN",
      "PRIVATE_KEY", "SSH_PRIVATE_KEY", "JWT" }

GenericPatterns == { "GENERIC_API_KEY", "ENV_SECRET", "AWS_SECRET_KEY" }

PatternIndex(p) == CHOOSE k \in 1..Len(REDACTION_PATTERNS) : REDACTION_PATTERNS[k] = p

\* redact_text has returned.
Redacted == op \in {"redacted", "warned"}

\* C11 as stated: for every pattern P and every text holding a match for P,
\* the redacted text holds P's replacement token and no longer holds the
\* raw text that matched P.
C11RedactionComplete ==
    Redacted =>
        \A i \in 1..Len(original_text), k \in 1..Len(REDACTION_PATTERNS) :
            Matches(REDACTION_PATTERNS[k], original_text[i]) =>
                /\ \E j \in 1..Len(redacted) : redacted[j].tag = REDACTION_PATTERNS[k]
                /\ redacted[i].tag # ""

\* C12 as stated: every specific pattern stands before every generic
\* catch-all in the list, so a secret of a specific shape is tagged with a
\* specific pattern's name.
C12SpecificBeforeGeneric ==
    Redacted =>
        /\ \A sp \in SpecificPatterns, g \in GenericPatterns :
            PatternIndex(sp) < PatternIndex(g)
        /\ \A i \in 1..Len(original_text) :
            (\E sp \in SpecificPatterns : Matches(sp, original_text[i])) =>
                redacted[i].tag \in SpecificPatterns

\* What a preview may show of the match_str it was cut from.
PreviewSafe(preview, match_str) ==
    IF Len(match_str) <= 12
    THEN preview = << "*", "*", "*" >>
    ELSE /\ { preview[i] : i \in 1..Len(preview) } \ {"."}
            \subseteq { match_str[j] : j \in (1..4) \cup ((Len(match_str) - 3)..Len(match_str)) }
         /\ preview # match_str

C28Idempotent ==
    op = "redacted_again" => (redacted = original_text /\ redactions = <<>>)

\* No item of the text is a secret as it was written: the text is what
\* redact_text leaves.
NoRawSecret(txt) ==
    \A i \in 1..Len(txt), k \in 1..Len(REDACTION_PATTERNS) :
        ~Matches(REDACTION_PATTERNS[k], txt[i])

\* C14 as stated: every text of a context session handed to save_context,
\* each message content and the title, comes from the output of redact
\* and never from the raw ingested text.
C14ContextRedacted ==
    \A n \in 1..Len(context_store) :
        /\ NoRawSecret(context_store[n].title)
        /\ \A m \in 1..Len(context_store[n].messages) :
            NoRawSecret(context_store[n].messages[m])

\* truncate_evidence has returned.
Truncated == op = "truncated" /\ output # <<>>

\* A line without its empty pieces and terminators: what it reads.
Norm(line) ==
    LET kept == SelectSeq(line, LAMBDA a : a.text # "empty")
    IN  [i \in 1..Len(kept) |-> << kept[i].id, kept[i].text >>]

\* The lines of the returned text.
OutLines == SplitLines(output[1])

\* C15 as stated: a content of at most max_lines lines is returned
\* unchanged, whatever the keywords.
C15IdentityUnderBudget ==
    (Truncated /\ Len(arg_content) <= arg_max_lines) => output[1] = arg_content

\* C16 as stated: the returned text holds the final line of the content,
\* whatever max_lines and the keywords.
C16TailPreserved ==
    (Truncated /\ arg_content # <<>>) =>
        \E j \in 1..Len(output[1]) :
            /\ output[1][j].id = arg_content[Len(arg_content)].id
            /\ output[1][j].text = arg_content[Len(arg_content)].text

Pieces == SplitLines(arg_content)

\* The indices of the pieces the returned text shows as annotated lines.
AnnotatedIdx ==
    { OutLines[j][1].id : j \in { i \in 1..Len(OutLines) :
        OutLines[i] # <<>> /\ OutLines[i][1].text = "line_number" } }

\* The indices of the last floor(max_lines / 2) pieces that are not shown as
\* annotated lines, in order.
UnseenTailIdx ==
    LET n == Len(Pieces)
        k == Min(arg_max_lines \div 2, n)
    IN  SelectSeq([q \in 1..k |-> n - k + q], LAMBDA i : i \notin AnnotatedIdx)

C18ScoreBounded ==
    relevance # <<>> =>
        \A fn \in DOMAIN relevance[1] :
            relevance[1][fn] >= 0 /\ relevance[1][fn] <= 10

\* A score was returned for a test file whose stem, path parts and test
\* keywords together add up to more than 1.
C18Witness ==
    /\ relevance # <<>>
    /\ \E fn \in DOMAIN relevance[1] :
        /\ Score(evidence_content[1], fn) > 10
        /\ relevance[1][fn] = 10

\* C19 as stated: when the CLI's run action has ended and a session was
\* recorded, the exit status of the CLI process equals the exit code
\* recorded in that session.
C19ExitCodeEqual ==
    (caller = "cli" /\ pc = "end" /\ store # <<>>) =>
        cliExit = << store[Len(store)].exit_code >>

\* The import said that the path does not exist.
NotFoundSaid ==
    \E i \in 1..Len(import_console) :
        import_console[i] \in {"usage_does_not_exist", "log_file_not_found"}

\* The import has failed: a nonzero exit status of the CLI, or an exception
\* handed to the library caller.
ImportFailed ==
    IF import_caller = "cli"
    THEN import_exit # <<>> /\ import_exit # <<0>>
    ELSE import_exc # "none"

\* C20: an import of a path that does not exist ends in a failure that says
\* the path was not found, a message no import of an existing path ever
\* prints; it returns no session, reports none as imported, and never
\* changes the Evidence Store.
C20MissingLogRejected ==
    /\ []((log_given = <<"missing">> /\ op = "import_end") =>
            /\ ImportFailed
            /\ NotFoundSaid
            /\ import_caller = "lib" => import_exc = "FileNotFoundError"
            /\ import_result = <<>>
            /\ \A i \in 1..Len(import_console) :
                    import_console[i] # "imported_as_session")
    /\ [](NotFoundSaid => log_file = <<"missing">>)
    /\ [][log_given = <<"missing">> => evidence_logs' = evidence_logs]_vars

\* An import of a nonexistent path has failed while the store holds records.
C20Witness ==
    /\ log_given = <<"missing">>
    /\ op = "import_end"
    /\ evidence_logs # <<>>
    /\ NotFoundSaid

\* C21 as stated: while the MCP server serves, no tool handler writes
\* anything but protocol responses to stdout, on success or on any error
\* path.
C21PrimaryClean ==
    primary = <<>>

C23RecordsKept ==
    \A i \in 1..Len(written) :
        /\ written[i].name \in DOMAIN evidence_dir
        /\ evidence_dir[written[i].name] = written[i].record

\* C24: on the path without exception, the engine reaches the wait only
\* when both streams are at end-of-stream, drained and unregistered; the
\* exit code it records is the status the child ended with; and a session
\* is persisted only once the child has terminated, with that status.
C24WaitAfterEof ==
    /\ pc = "wait" =>
        /\ selector = {}
        /\ wopen = {}
        /\ \A f \in Fds : pipe[f] = <<>> /\ dbuf[f] = <<>>
    /\ (failure = "none" /\ exit_code # <<>>) =>
        /\ proc = "exited"
        /\ exit_code = <<status>>
    /\ (failure = "none" /\ store # <<>>) =>
        /\ proc = "exited"
        /\ store[Len(store)].exit_code = status

\* A session was persisted without exception for a child that wrote to
\* both streams and ended with a non-zero status.
C24Witness ==
    /\ failure = "none"
    /\ store # <<>>
    /\ proc = "exited"
    /\ status # 0
    /\ \A f \in Fds : wrote[f] # <<>>

\* The engine is inside readline on a stream: the stream object holds an
\* unterminated piece, the pipe is empty and the child still holds the
\* write end, so readline waits for more output of that stream.
StalledOn(f) ==
    /\ pc = "readline"
    /\ Head(events) = f
    /\ FirstNewline(dbuf[f]) = 0
    /\ pipe[f] = <<>>
    /\ f \in wopen

\* C25 as stated: for every child whose program ends by closing both
\* streams and exiting, the capture eventually finishes.
C25CaptureFinishes == <>(pc = "end")

\* C25, the read loop: the engine never waits inside a read on one stream
\* while the other stream has output pending.
C25NoStall ==
    \A f \in Fds : StalledOn(f) => pipe[Other(f)] = <<>>

\* A line holds one of the keywords when letter case is ignored on both
\* sides.
HoldsIgnoringCase(line, keywords) ==
    \E i \in 1..Len(line) :
        Lower(line[i].text) \in { Lower(kw) : kw \in keywords }

\* The returned text holds the omission marker, which is written exactly
\* when some line was marked important.
MarkerShown ==
    \E j \in 1..Len(OutLines) :
        \E i \in 1..Len(OutLines[j]) : OutLines[j][i].text = "omitted"

\* C26 as stated: when truncation occurs, every line that holds a
\* configured keyword, letter case ignored, is marked important, whatever
\* the case the keywords are given in.
C26KeywordsIgnoreCase ==
    (Truncated /\ Len(Pieces) > arg_max_lines) =>
        /\ \A j \in 1..Len(Pieces) :
            HoldsIgnoringCase(Pieces[j], arg_keywords)
                => HasKeyword(Pieces[j], arg_keywords)
        /\ (\E j \in 1..Len(Pieces) : HoldsIgnoringCase(Pieces[j], arg_keywords))
                => MarkerShown

\* C27 as stated: whenever run_and_capture has persisted a session or
\* returned a CaptureResult, the child it spawned, if any, has terminated.
C27ChildTerminated ==
    (store # <<>> \/ result # <<>>) => proc # "running"

\* The number of lines the returned text holds after its banner and the
\* empty line that follows it; a returned text that ends with the banner
\* holds none.
ShownLines ==
    IF Len(OutLines) = 3 /\ OutLines[3] = <<>> THEN 0 ELSE Len(OutLines) - 2

\* C29 as stated: for a content of more than max_lines lines and
\* max_lines >= 1, the returned text holds at most max_lines lines after
\* the banner, and never more lines than the content has.
C29BoundedByBudget ==
    (Truncated /\ arg_max_lines >= 1 /\ Len(Pieces) > arg_max_lines) =>
        /\ ShownLines <= arg_max_lines
        /\ ShownLines <= Len(Pieces)

\* The indices of the last floor(max_lines / 2) pieces.
TailIdx ==
    LET n == Len(Pieces)
    IN  { i \in 1..n : i > n - (arg_max_lines \div 2) }

\* The N of the omission markers of the returned text.
MarkerCounts ==
    UNION { { OutLines[j][i].id : i \in { h \in 1..Len(OutLines[j]) :
                                            OutLines[j][h].text = "omitted" } } :
            j \in 1..Len(OutLines) }

\* C30 as stated: the N of the omission marker is the number of pieces of
\* the content shown neither as annotated lines nor in the tail, and N is
\* not negative.
C30OmittedExact ==
    (Truncated /\ Len(Pieces) > arg_max_lines) =>
        \A N \in MarkerCounts :
            /\ N >= 0
            /\ N = Cardinality({ i \in 1..Len(Pieces) :
                                   i \notin AnnotatedIdx /\ i \notin TailIdx })

====
